---- MODULE Spec2Model ----
(***************************************************************************)
(* ECOcensus: the financial aggregation of the Dashboard (calculateStats,  *)
(* in its two copies) and the quick statistics of the Landing page.        *)
(*                                                                         *)
(* Amounts are JSON numbers or null.  A nullable amount is the empty       *)
(* sequence (null) or a one-element sequence <<v>>.  Averages and margins  *)
(* are exact rationals [n, d] in lowest terms (d > 0); the rounding of     *)
(* IEEE doubles is not modelled.                                           *)
(***************************************************************************)
EXTENDS Integers, Sequences, FiniteSets, TLC

\* ------------------------------------------------------------------------
\* JavaScript values
\* ------------------------------------------------------------------------

\* JSON null of a nullable column.
Null == <<>>

\* `x || 0` for a nullable amount: null (and 0) give 0.
OrZero(x) == IF x = Null THEN 0 ELSE x[1]

\* ToNumber of a nullable amount, as applied by -, <, > to a raw column.
ToNumber(x) == IF x = Null THEN 0 ELSE x[1]

Abs(i) == IF i < 0 THEN -i ELSE i

RECURSIVE GCD(_, _)
GCD(a, b) == IF b = 0 THEN a ELSE GCD(b, a % b)

\* The number n/d (d # 0) in lowest terms with a positive denominator.
Rat(n, d) ==
    LET g == GCD(Abs(n), Abs(d))
        s == IF d < 0 THEN -1 ELSE 1
    IN  [n |-> s * (n \div g), d |-> s * (d \div g)]

RatInt(i) == [n |-> i, d |-> 1]
RatSub(a, b) == Rat(a.n * b.d - b.n * a.d, a.d * b.d)
RatDiv(a, b) == Rat(a.n * b.d, a.d * b.n)
RatMul(a, b) == Rat(a.n * b.n, a.d * b.d)
RatLT(a, b) == a.n * b.d < b.n * a.d
RatGT(a, b) == RatLT(b, a)
RatGE(a, b) == ~RatLT(a, b)

MaxOf(S) == CHOOSE x \in S : \A y \in S : y <= x
MinOf(S) == CHOOSE x \in S : \A y \in S : x <= y

SeqToSet(s) == {s[i] : i \in 1..Len(s)}

\* The elements of a set of integers in ascending order.
SortedSeq(S) ==
    [k \in 1..Cardinality(S) |->
        CHOOSE x \in S : Cardinality({y \in S : y < x}) = k - 1]

\* Array.prototype.filter, by a predicate given as a set of kept indices.
RECURSIVE FilterIdx(_, _, _)
FilterIdx(s, keep, i) ==
    IF i > Len(s) THEN <<>>
    ELSE (IF i \in keep THEN <<s[i]>> ELSE <<>>) \o FilterIdx(s, keep, i + 1)

\* Array.prototype.sort with a consistent comparator: before[i][j] is
\* "compare(s[i], s[j]) < 0".  The sort is stable: elements the comparator
\* does not order keep their input order.
StableSort(s, before) ==
    LET n == Len(s)
        rank(i) == Cardinality({j \in 1..n :
                        before[j][i] \/ (~before[i][j] /\ j < i)})
    IN  [k \in 1..n |-> s[CHOOSE i \in 1..n : rank(i) = k - 1]]

\* Array.prototype.slice(0, k).
Slice(s, k) == SubSeq(s, 1, IF Len(s) < k THEN Len(s) ELSE k)

\* ------------------------------------------------------------------------
\* Program constants
\* ------------------------------------------------------------------------

\* `.filter(year => year <= 2023)`: the last complete filing year.
CutoffYear == 2023
\* `orgFinancials.slice(0, 3)`: the rolling window.
WindowSize == 3
\* `avgMarginPercent < -5` and `avgMarginPercent < 5`.
AtRiskBelow == -5
StableBelow == 5
\* `marginPercent < -10` of the copy in src/components/Dashboard.jsx.
AtRiskBelowJsx == -10
\* `org.revenue < 100000`, `org.revenue < 1000000`.
SmallBelow == 100000
MediumBelow == 1000000
\* `.slice(0, 10)`, `.slice(0, 5)`, `o.revenue >= 50000`.
TopCount == 10
MarginCount == 5
MarginMinRevenue == 50000
\* `limit=1000` of the Landing page's financials request.
LandingLimit == 1000

\* ------------------------------------------------------------------------
\* State
\* ------------------------------------------------------------------------

VARIABLES
    organizations,  \* rows of the organizations table: [id, geocoded]
    financials,     \* rows of the financials table, in the order returned
    route,          \* the mounted page: "landing", "dashboard", "dashboardJsx", "home", "profile"
    loading,        \* useState(true) of the mounted page
    stats,          \* useState(null) of the mounted page: <<>> or <<value>>
    orgs,           \* useState([]) of Landing and of Home: the organizations held
    home,           \* Home: [search, dataFilter, focusFilter], <<>> on other pages
    profile,        \* OrgProfile: [slug, org, financials, mediaMentions], <<>> elsewhere
    requests,       \* the calls of an async handler in flight, each with its position
    rendered        \* what the page shows of the state, <<>> before a render

vars == <<organizations, financials, route, loading, stats, orgs,
          home, profile, requests, rendered>>

\* The state of the pages that are not mounted.
otherPages == <<home, profile, requests, rendered>>
NotMounted == home = <<>> /\ profile = <<>> /\ requests = <<>> /\ rendered = <<>>

\* ------------------------------------------------------------------------
\* calculateStats (Dashboard, rolling three-year average)
\* ------------------------------------------------------------------------

\* Mutant: the cutoff filter is left out.
yearsNoCutoff(fin) ==
    SortedSeq({fin[i].year : i \in 1..Len(fin)})

\* [...new Set(financials.map(f => f.year))].filter(year => year <= 2023)
\* .sort(): the default sort compares decimal strings, which for years of
\* equal digit count is the numeric order.
years(fin) ==
    SortedSeq({fin[i].year : i \in {j \in 1..Len(fin) : fin[j].year <= CutoffYear}})

\* Mutant: a row is added to every retained year up to its own.
RECURSIVE AccumulateFromYear(_, _, _, _)
AccumulateFromYear(fin, year, field, i) ==
    IF i > Len(fin) THEN 0
    ELSE (IF fin[i].year >= year THEN OrZero(fin[i][field]) ELSE 0)
         + AccumulateFromYear(fin, year, field, i + 1)

\* financials.forEach(f => { if (byYear[f.year]) byYear[f.year][field] +=
\* f[field] || 0 }): the running total of one field for one year, from row i.
RECURSIVE Accumulate(_, _, _, _)
Accumulate(fin, year, field, i) ==
    IF i > Len(fin) THEN 0
    ELSE (IF fin[i].year = year THEN OrZero(fin[i][field]) ELSE 0)
         + Accumulate(fin, year, field, i + 1)

byYear(fin) ==
    [y \in SeqToSet(years(fin)) |->
        [year     |-> y,
         revenue  |-> Accumulate(fin, y, "revenue", 1),
         expenses |-> Accumulate(fin, y, "expenses", 1),
         assets   |-> Accumulate(fin, y, "assets", 1),
         orgs     |-> {fin[i].organization_id :
                          i \in {j \in 1..Len(fin) : fin[j].year = y}}]]

\* Object.values(byYear).map(...): integer keys are enumerated in ascending
\* numeric order.
revenueByYear(fin) ==
    LET totals == byYear(fin)
        keys   == SortedSeq(DOMAIN totals)
    IN  [k \in 1..Len(keys) |->
            [year     |-> totals[keys[k]].year,
             revenue  |-> totals[keys[k]].revenue,
             expenses |-> totals[keys[k]].expenses]]

\* Mutant: the totals of the first retained year.
latestDataFirstYear(fin) ==
    LET ys == years(fin)
    IN  IF ys = <<>> THEN <<>> ELSE <<byYear(fin)[MinOf(SeqToSet(ys))]>>

\* byYear[Math.max(...years)]: undefined (<<>>) when years is empty, since
\* Math.max() is -Infinity and byYear has no such key.
latestData(fin) ==
    LET ys == years(fin)
    IN  IF ys = <<>> THEN <<>> ELSE <<byYear(fin)[MaxOf(SeqToSet(ys))]>>

\* Mutant: the rows are filtered but not sorted by year.
orgFinancialsUnsorted(fin, org) ==
    FilterIdx(fin, {i \in 1..Len(fin) : fin[i].organization_id = org.id}, 1)

\* financials.filter(f => f.organization_id === org.id)
\*           .sort((a, b) => b.year - a.year)
orgFinancials(fin, org) ==
    LET own == FilterIdx(fin, {i \in 1..Len(fin) : fin[i].organization_id = org.id}, 1)
        before == [i \in 1..Len(own) |-> [j \in 1..Len(own) |-> own[j].year - own[i].year < 0]]
    IN  StableSort(own, before)

\* recentYears.reduce((sum, f) => sum + (f[field] || 0), 0)
RECURSIVE Reduce(_, _, _)
Reduce(recs, field, i) ==
    IF i > Len(recs) THEN 0
    ELSE OrZero(recs[i][field]) + Reduce(recs, field, i + 1)

\* Mutant: no revenue against some expenses counts as a total loss.
avgMarginPercentLossOnZero(avgRevenue, avgExpenses) ==
    IF RatGT(avgRevenue, RatInt(0))
    THEN RatMul(RatDiv(RatSub(avgRevenue, avgExpenses), avgRevenue), RatInt(100))
    ELSE IF RatGT(avgExpenses, RatInt(0)) THEN RatInt(-100) ELSE RatInt(0)

\* avgRevenue > 0 ? (avgMargin / avgRevenue) * 100 : 0
avgMarginPercent(avgRevenue, avgExpenses) ==
    IF RatGT(avgRevenue, RatInt(0))
    THEN RatMul(RatDiv(RatSub(avgRevenue, avgExpenses), avgRevenue), RatInt(100))
    ELSE RatInt(0)

\* Mutant: the two boundary values fall into no category.
healthOfGap(margin) ==
    IF RatLT(margin, RatInt(AtRiskBelow)) THEN "at-risk"
    ELSE IF RatGT(margin, RatInt(StableBelow)) THEN "healthy"
    ELSE IF RatGT(margin, RatInt(AtRiskBelow)) /\ RatLT(margin, RatInt(StableBelow))
         THEN "stable"
    ELSE "undefined"

\* let health = 'healthy'; if (m < -5) health = 'at-risk';
\* else if (m < 5) health = 'stable'
healthOf(margin) ==
    IF RatLT(margin, RatInt(AtRiskBelow)) THEN "at-risk"
    ELSE IF RatLT(margin, RatInt(StableBelow)) THEN "stable"
    ELSE "healthy"

\* Mutant: the label is always built from the first and the last year used.
yearRangeOfFirstLast(yearsUsed) ==
    <<yearsUsed[1], yearsUsed[Len(yearsUsed)]>>

\* `${Math.min(...yearsUsed)}-${Math.max(...yearsUsed)}` as <<min, max>>,
\* `${yearsUsed[0]}` as <<year>>.
yearRangeOf(yearsUsed) ==
    IF Len(yearsUsed) > 1
    THEN <<MinOf(SeqToSet(yearsUsed)), MaxOf(SeqToSet(yearsUsed))>>
    ELSE <<yearsUsed[1]>>

\* Mutant: the means are taken over the non-null values only.
healthSummaryNonNullMean(fin, org) ==
    LET sorted      == orgFinancials(fin, org)
        recentYears == Slice(sorted, WindowSize)
        yearsUsed   == [i \in 1..Len(recentYears) |-> recentYears[i].year]
        filled(f)   == Cardinality({i \in 1..Len(recentYears) : recentYears[i][f] # Null})
        atLeast1(c) == IF c = 0 THEN 1 ELSE c
        avgRevenue  == Rat(Reduce(recentYears, "revenue", 1), atLeast1(filled("revenue")))
        avgExpenses == Rat(Reduce(recentYears, "expenses", 1), atLeast1(filled("expenses")))
        margin      == avgMarginPercent(avgRevenue, avgExpenses)
    IN  [id            |-> org.id,
         health        |-> healthOf(margin),
         revenue       |-> avgRevenue,
         expenses      |-> avgExpenses,
         assets        |-> OrZero(sorted[1].assets),
         margin        |-> margin,
         yearsAnalyzed |-> yearsUsed,
         yearRange     |-> yearRangeOf(yearsUsed)]

\* Mutant: assets are the largest value of the window, not the latest.
healthSummaryMaxAssets(fin, org) ==
    LET sorted      == orgFinancials(fin, org)
        recentYears == Slice(sorted, WindowSize)
        yearsUsed   == [i \in 1..Len(recentYears) |-> recentYears[i].year]
        avgRevenue  == Rat(Reduce(recentYears, "revenue", 1), Len(recentYears))
        avgExpenses == Rat(Reduce(recentYears, "expenses", 1), Len(recentYears))
        margin      == avgMarginPercent(avgRevenue, avgExpenses)
    IN  [id            |-> org.id,
         health        |-> healthOf(margin),
         revenue       |-> avgRevenue,
         expenses      |-> avgExpenses,
         assets        |-> MaxOf({OrZero(recentYears[i].assets) : i \in 1..Len(recentYears)}),
         margin        |-> margin,
         yearsAnalyzed |-> yearsUsed,
         yearRange     |-> yearRangeOf(yearsUsed)]

\* The entry orgHealth[org.id] of an organization with at least one record.
healthSummary(fin, org) ==
    LET sorted      == orgFinancials(fin, org)
        recentYears == Slice(sorted, WindowSize)
        yearsUsed   == [i \in 1..Len(recentYears) |-> recentYears[i].year]
        avgRevenue  == Rat(Reduce(recentYears, "revenue", 1), Len(recentYears))
        avgExpenses == Rat(Reduce(recentYears, "expenses", 1), Len(recentYears))
        margin      == avgMarginPercent(avgRevenue, avgExpenses)
    IN  [id            |-> org.id,
         health        |-> healthOf(margin),
         revenue       |-> avgRevenue,
         expenses      |-> avgExpenses,
         assets        |-> OrZero(sorted[1].assets),
         margin        |-> margin,
         yearsAnalyzed |-> yearsUsed,
         yearRange     |-> yearRangeOf(yearsUsed)]

\* Mutant: an organization without records gets a summary of zeros.
orgHealthWithEmpty(orgList, fin) ==
    [k \in 1..Len(orgList) |->
        IF orgFinancials(fin, orgList[k]) # <<>>
        THEN healthSummary(fin, orgList[k])
        ELSE [id            |-> orgList[k].id,
              health        |-> "stable",
              revenue       |-> RatInt(0),
              expenses      |-> RatInt(0),
              assets        |-> 0,
              margin        |-> RatInt(0),
              yearsAnalyzed |-> <<>>,
              yearRange     |-> <<>>]]

\* Object.values(orgHealth): one summary per organization with records, in
\* the order of insertion (the identifiers are UUID strings).
orgHealth(orgList, fin) ==
    LET has == {i \in 1..Len(orgList) : orgFinancials(fin, orgList[i]) # <<>>}
        kept == FilterIdx(orgList, has, 1)
    IN  [k \in 1..Len(kept) |-> healthSummary(fin, kept[k])]

countHealth(summaries, h) ==
    Cardinality({i \in 1..Len(summaries) : summaries[i].health = h})

healthCounts(summaries) ==
    [healthy |-> countHealth(summaries, "healthy"),
     stable  |-> countHealth(summaries, "stable"),
     atRisk  |-> countHealth(summaries, "at-risk")]

\* Mutant: the thresholds themselves fall in the lower bucket.
sizeDistributionInclusive(summaries) ==
    LET small  == {i \in 1..Len(summaries) : ~RatGT(summaries[i].revenue, RatInt(SmallBelow))}
        medium == {i \in 1..Len(summaries) : i \notin small
                        /\ ~RatGT(summaries[i].revenue, RatInt(MediumBelow))}
    IN  [small  |-> Cardinality(small),
         medium |-> Cardinality(medium),
         large  |-> Len(summaries) - Cardinality(small) - Cardinality(medium)]

sizeDistribution(summaries) ==
    LET small  == {i \in 1..Len(summaries) : RatLT(summaries[i].revenue, RatInt(SmallBelow))}
        medium == {i \in 1..Len(summaries) : i \notin small
                        /\ RatLT(summaries[i].revenue, RatInt(MediumBelow))}
    IN  [small  |-> Cardinality(small),
         medium |-> Cardinality(medium),
         large  |-> Len(summaries) - Cardinality(small) - Cardinality(medium)]

\* .sort((a, b) => b[key] - a[key]) and .sort((a, b) => a[key] - b[key])
sortDesc(s, key) ==
    StableSort(s, [i \in 1..Len(s) |-> [j \in 1..Len(s) |-> RatGT(s[i][key], s[j][key])]])
sortAsc(s, key) ==
    StableSort(s, [i \in 1..Len(s) |-> [j \in 1..Len(s) |-> RatLT(s[i][key], s[j][key])]])

\* Mutant: the first ten summaries in insertion order.
top10RevenueUnsorted(summaries) == Slice(summaries, TopCount)

top10Revenue(summaries) == Slice(sortDesc(summaries, "revenue"), TopCount)

top10Assets(summaries) ==
    LET elig == FilterIdx(summaries, {i \in 1..Len(summaries) : summaries[i].assets > 0}, 1)
        before == [i \in 1..Len(elig) |-> [j \in 1..Len(elig) |-> elig[i].assets > elig[j].assets]]
    IN  Slice(StableSort(elig, before), TopCount)

\* Mutant: the margin leaderboards take every summary.
marginEligibleAll(summaries) == summaries

marginEligible(summaries) ==
    FilterIdx(summaries, {i \in 1..Len(summaries) :
                  RatGE(summaries[i].revenue, RatInt(MarginMinRevenue))}, 1)

strongest(summaries) == Slice(sortDesc(marginEligible(summaries), "margin"), MarginCount)

\* Mutant: the weakest list sorted like the strongest.
weakestDescending(summaries) ==
    Slice(sortDesc(marginEligible(summaries), "margin"), MarginCount)

weakest(summaries) == Slice(sortAsc(marginEligible(summaries), "margin"), MarginCount)

\* The return statement reads latestData.revenue: with no year <= 2023
\* latestData is undefined and the read throws a TypeError.
calculateStatsThrows(orgList, fin) == latestData(fin) = <<>>

\* The object calculateStats returns when it does not throw.
calculateStats(orgList, fin) ==
    LET summaries == orgHealth(orgList, fin)
        latest    == latestData(fin)[1]
        ys        == SeqToSet(years(fin))
    IN  [totalRevenue     |-> latest.revenue,
         totalExpenses    |-> latest.expenses,
         totalAssets      |-> latest.assets,
         orgCount         |-> Len(orgList),
         yearRange        |-> <<MinOf(ys), MaxOf(ys)>>,
         revenueByYear    |-> revenueByYear(fin),
         healthCounts     |-> healthCounts(summaries),
         sizeDistribution |-> sizeDistribution(summaries),
         top10Revenue     |-> top10Revenue(summaries),
         top10Assets      |-> top10Assets(summaries),
         strongest        |-> strongest(summaries),
         weakest          |-> weakest(summaries)]

\* ------------------------------------------------------------------------
\* calculateStats (src/components/Dashboard.jsx, latest year only)
\* ------------------------------------------------------------------------

\* latest.revenue > 0 ? ((latest.revenue - latest.expenses) / latest.revenue)
\* * 100 : 0, on the raw (nullable) columns of the latest record.
marginPercentJsx(latest) ==
    IF ToNumber(latest.revenue) > 0
    THEN RatMul(Rat(ToNumber(latest.revenue) - ToNumber(latest.expenses),
                    ToNumber(latest.revenue)), RatInt(100))
    ELSE RatInt(0)

\* if (m < -10) health = 'at-risk'; else if (m < 5) health = 'stable'
healthOfJsx(margin) ==
    IF RatLT(margin, RatInt(AtRiskBelowJsx)) THEN "at-risk"
    ELSE IF RatLT(margin, RatInt(StableBelow)) THEN "stable"
    ELSE "healthy"

\* The entry orgHealth[org.id]; revenue and expenses stay raw (nullable).
healthSummaryJsx(fin, org) ==
    LET latest == orgFinancials(fin, org)[1]
        margin == marginPercentJsx(latest)
    IN  [id       |-> org.id,
         health   |-> healthOfJsx(margin),
         revenue  |-> latest.revenue,
         expenses |-> latest.expenses,
         assets   |-> OrZero(latest.assets),
         margin   |-> margin]

orgHealthJsx(orgList, fin) ==
    LET has == {i \in 1..Len(orgList) : orgFinancials(fin, orgList[i]) # <<>>}
        kept == FilterIdx(orgList, has, 1)
    IN  [k \in 1..Len(kept) |-> healthSummaryJsx(fin, kept[k])]

sizeDistributionJsx(summaries) ==
    LET small  == {i \in 1..Len(summaries) : ToNumber(summaries[i].revenue) < SmallBelow}
        medium == {i \in 1..Len(summaries) : i \notin small
                        /\ ToNumber(summaries[i].revenue) < MediumBelow}
    IN  [small  |-> Cardinality(small),
         medium |-> Cardinality(medium),
         large  |-> Len(summaries) - Cardinality(small) - Cardinality(medium)]

top10RevenueJsx(summaries) ==
    LET before == [i \in 1..Len(summaries) |-> [j \in 1..Len(summaries) |->
                      ToNumber(summaries[j].revenue) - ToNumber(summaries[i].revenue) < 0]]
    IN  Slice(StableSort(summaries, before), TopCount)

marginEligibleJsx(summaries) ==
    FilterIdx(summaries, {i \in 1..Len(summaries) :
                  ToNumber(summaries[i].revenue) >= MarginMinRevenue}, 1)

calculateStatsJsx(orgList, fin) ==
    LET summaries == orgHealthJsx(orgList, fin)
        latest    == latestData(fin)[1]
        ys        == SeqToSet(years(fin))
    IN  [totalRevenue     |-> latest.revenue,
         totalExpenses    |-> latest.expenses,
         totalAssets      |-> latest.assets,
         orgCount         |-> Len(orgList),
         yearRange        |-> <<MinOf(ys), MaxOf(ys)>>,
         revenueByYear    |-> revenueByYear(fin),
         healthCounts     |-> healthCounts(summaries),
         sizeDistribution |-> sizeDistributionJsx(summaries),
         top10Revenue     |-> top10RevenueJsx(summaries),
         top10Assets      |-> top10Assets(summaries),
         strongest        |-> Slice(sortDesc(marginEligibleJsx(summaries), "margin"), MarginCount),
         weakest          |-> Slice(sortAsc(marginEligibleJsx(summaries), "margin"), MarginCount)]

\* ------------------------------------------------------------------------
\* Landing.fetchData: the quick statistics
\* ------------------------------------------------------------------------

\* financials?...&order=year.desc.nullslast&limit=1000
landingFinancials(fin) ==
    LET before == [i \in 1..Len(fin) |-> [j \in 1..Len(fin) |-> fin[i].year > fin[j].year]]
    IN  Slice(StableSort(fin, before), LandingLimit)

\* financials.filter(f => f.year === latestYear)
\*           .reduce((sum, f) => sum + (f.revenue || 0), 0)
\* with latestYear = Math.max(...financials.map(f => f.year)); no row equals
\* -Infinity, so an empty response sums to 0.
latestRevenue(fin) ==
    IF fin = <<>> THEN 0
    ELSE Accumulate(fin, MaxOf({fin[i].year : i \in 1..Len(fin)}), "revenue", 1)

landingStats(allOrgs, geocodedOrgs, fin) ==
    [totalOrgs      |-> Len(allOrgs),
     geocoded       |-> Len(geocodedOrgs),
     withFinancials |-> Cardinality({fin[i].organization_id : i \in 1..Len(fin)}),
     totalRevenue   |-> latestRevenue(fin)]

\* ------------------------------------------------------------------------
\* Inputs: the tables of the data source
\* ------------------------------------------------------------------------

\* The most rows the financials table holds.
MaxRecs == 4

\* The organizations table; the second organization has no coordinates.
Organizations ==
    <<[id |-> 1, geocoded |-> TRUE], [id |-> 2, geocoded |-> FALSE]>>

\* Family A: two organizations over the years 2021..2024 (2024 is after
\* the cutoff), each row either fully null or fully filled.
KeysA == ({1} \X {2021, 2022, 2023, 2024}) \cup ({2} \X {2023, 2024})
AmountsA ==
    {[revenue |-> Null, expenses |-> Null, assets |-> Null],
     [revenue |-> <<100000>>, expenses |-> <<90000>>, assets |-> <<500000>>]}

\* Family B: one organization over the years 2021..2023 with amounts at
\* and around the classification thresholds.
KeysB == {1} \X {2021, 2022, 2023}
AmountsB ==
    {[revenue |-> <<100000>>, expenses |-> <<90000>>, assets |-> <<200000>>],
     [revenue |-> <<110000>>, expenses |-> <<95000>>, assets |-> Null],
     [revenue |-> <<120000>>, expenses |-> <<80000>>, assets |-> <<0>>],
     [revenue |-> <<50000>>, expenses |-> <<60000>>, assets |-> <<10000>>],
     [revenue |-> <<100000>>, expenses |-> <<95000>>, assets |-> Null],
     [revenue |-> <<100000>>, expenses |-> <<105000>>, assets |-> Null],
     [revenue |-> <<100000>>, expenses |-> <<108000>>, assets |-> Null],
     [revenue |-> <<100000>>, expenses |-> <<112000>>, assets |-> Null],
     [revenue |-> <<0>>, expenses |-> <<60000>>, assets |-> Null],
     [revenue |-> Null, expenses |-> <<60000>>, assets |-> <<300000>>],
     [revenue |-> Null, expenses |-> Null, assets |-> Null]}

FinancialRow(key, amounts) ==
    [organization_id |-> key[1], year |-> key[2], revenue |-> amounts.revenue,
     expenses |-> amounts.expenses, assets |-> amounts.assets]

\* The tables with at most n rows, in every row order, one row per
\* organization and year.
Tables(keys, amounts, n) ==
    UNION {
        {[i \in 1..k |-> FinancialRow(ks[i], am[i])] :
            ks \in {q \in [1..k -> keys] : \A i, j \in 1..k : q[i] = q[j] => i = j},
            am \in [1..k -> amounts]} :
        k \in 0..(IF Cardinality(keys) < n THEN Cardinality(keys) ELSE n)}

\* The most organizations handed to calculateStats directly.
MaxOrgs == 11

\* Family C: up to MaxOrgs organizations with at most one row each, with
\* amounts at the size, leaderboard and margin thresholds.
AmountsC ==
    <<[revenue |-> <<99999>>, expenses |-> <<99999>>, assets |-> Null],
      [revenue |-> <<100000>>, expenses |-> <<95000>>, assets |-> <<5000>>],
      [revenue |-> <<1000000>>, expenses |-> <<1100000>>, assets |-> <<750000>>],
      [revenue |-> <<999999>>, expenses |-> <<999999>>, assets |-> <<0>>],
      [revenue |-> <<49999>>, expenses |-> <<49999>>, assets |-> <<750000>>],
      [revenue |-> <<50000>>, expenses |-> <<45000>>, assets |-> <<20000>>]>>

\* The organizations whose row is drawn from two amounts; the others have
\* one fixed amounts profile with assets above zero.
MaxChoice == 5

\* The rows organization i may have: of 2023 or 2022 in turn, and for every
\* fourth organization possibly no row at all.
RowsC(i) ==
    LET year == IF i % 2 = 1 THEN 2023 ELSE 2022
        withAssets == <<2, 3, 5, 6>>
        profiles == IF i <= MaxChoice
                    THEN {((i - 1) % Len(AmountsC)) + 1, (i % Len(AmountsC)) + 1}
                    ELSE {withAssets[(i % Len(withAssets)) + 1]}
    IN  {<<FinancialRow(<<i, year>>, AmountsC[p])>> : p \in profiles}
        \cup (IF i % 4 = 0 THEN {<<>>} ELSE {})

RECURSIVE TablesC(_)
TablesC(n) ==
    IF n = 0 THEN {<<>>}
    ELSE {t \o r : t \in TablesC(n - 1), r \in RowsC(n)}

OrganizationsC(n) == [i \in 1..n |-> [id |-> i, geocoded |-> TRUE]]

Routes == {"landing", "dashboard", "dashboardJsx"}

Init ==
    /\ organizations = Organizations
    /\ financials \in Tables(KeysA, AmountsA, MaxRecs) \cup Tables(KeysB, AmountsB, MaxRecs)
    /\ route \in Routes
    /\ loading = TRUE
    /\ stats = <<>>
    /\ orgs = <<>>
    /\ NotMounted

\* ------------------------------------------------------------------------
\* Actions
\* ------------------------------------------------------------------------

\* The most rows the data source returns for one request (1000 rows in
\* the deployment), scaled to the tables of the model: above MaxRecs, so
\* that no table of Init is cut.
ServerMaxRows == 5

\* The response to one request for the financial rows: the first
\* ServerMaxRows rows in the order of the request.
serverResponse(rows) == Slice(rows, ServerMaxRows)

\* organizations?...&id=in.(uniqueOrgIds): the organizations with a row.
dashboardOrgs(fin) ==
    FilterIdx(organizations,
              {i \in 1..Len(organizations) :
                  organizations[i].id \in {fin[j].organization_id : j \in 1..Len(fin)}}, 1)

\* Dashboard.fetchDashboardData: both responses arrive, calculateStats runs;
\* a throw lands in the catch, which only clears loading.
fetchDashboardData ==
    /\ route = "dashboard"
    /\ loading
    /\ LET response == serverResponse(financials)
       IN  stats' = IF calculateStatsThrows(dashboardOrgs(response), response)
                    THEN stats
                    ELSE <<calculateStats(dashboardOrgs(response), response)>>
    /\ loading' = FALSE
    /\ UNCHANGED <<organizations, financials, route, orgs, otherPages>>

\* The same handler of src/components/Dashboard.jsx.
fetchDashboardDataJsx ==
    /\ route = "dashboardJsx"
    /\ loading
    /\ LET response == serverResponse(financials)
       IN  stats' = IF calculateStatsThrows(dashboardOrgs(response), response)
                    THEN stats
                    ELSE <<calculateStatsJsx(dashboardOrgs(response), response)>>
    /\ loading' = FALSE
    /\ UNCHANGED <<organizations, financials, route, orgs, otherPages>>

\* Landing.fetchData: the three responses arrive and the statistics are set.
fetchData ==
    /\ route = "landing"
    /\ loading
    /\ LET geocodedOrgs == FilterIdx(organizations,
                              {i \in 1..Len(organizations) : organizations[i].geocoded}, 1)
       IN  /\ orgs' = geocodedOrgs
           /\ stats' = <<landingStats(organizations, geocodedOrgs,
                                      landingFinancials(serverResponse(financials)))>>
    /\ loading' = FALSE
    /\ UNCHANGED <<organizations, financials, route, otherPages>>

Next == fetchDashboardData \/ fetchDashboardDataJsx \/ fetchData

Spec == Init /\ [][Next]_vars

\* ------------------------------------------------------------------------
\* The pages over a data source with more rows than one response holds
\* ------------------------------------------------------------------------

\* Family F: tables of up to one row more than a response holds, in the
\* order of the request (order=year.desc; rows of one year in any order).
KeysF == KeysA \cup {<<2, 2022>>}
AmountsF == {[revenue |-> <<100000>>, expenses |-> <<90000>>, assets |-> <<500000>>]}
TablesF ==
    {t \in Tables(KeysF, AmountsF, ServerMaxRows + 1) :
        \A i, j \in 1..Len(t) : i < j => t[i].year >= t[j].year}

InitFetch ==
    /\ organizations = Organizations
    /\ financials \in TablesF
    /\ route \in Routes
    /\ loading = TRUE
    /\ stats = <<>>
    /\ orgs = <<>>
    /\ NotMounted

SpecFetch == InitFetch /\ [][Next]_vars

\* ------------------------------------------------------------------------
\* calculateStats called directly on given collections
\* ------------------------------------------------------------------------

\* Mutant: the financial rows are sorted in place (no filtered copy).
argumentsAfterSortInPlace(orgList, fin) ==
    <<orgList,
      StableSort(fin, [i \in 1..Len(fin) |-> [j \in 1..Len(fin) |-> fin[i].year > fin[j].year]])>>

\* The two argument arrays as calculateStats leaves them.  Every in-place
\* sort of the function acts on a fresh array: [...new Set()].filter(),
\* financials.filter(), Object.values(orgHealth); nothing is assigned to a
\* row or to an organization.
argumentsAfter(orgList, fin) == <<orgList, fin>>

InitAggregator ==
    /\ \E n \in 0..MaxOrgs :
          /\ organizations = OrganizationsC(n)
          /\ financials \in TablesC(n)
    /\ route = "calculateStats"
    /\ loading = TRUE
    /\ stats = <<>>
    /\ orgs = <<>>
    /\ NotMounted

\* One call calculateStats(organizations, financials); the caller keeps the
\* returned object (nothing when the call throws).  It may be called again.
callCalculateStats ==
    /\ route = "calculateStats"
    /\ stats' = IF calculateStatsThrows(organizations, financials)
                THEN stats
                ELSE <<calculateStats(organizations, financials)>>
    /\ loading' = FALSE
    /\ organizations' = argumentsAfter(organizations, financials)[1]
    /\ financials' = argumentsAfter(organizations, financials)[2]
    /\ UNCHANGED <<route, orgs, otherPages>>

NextAggregator == callCalculateStats

SpecAggregator == InitAggregator /\ [][NextAggregator]_vars

\* ------------------------------------------------------------------------
\* Properties
\* ------------------------------------------------------------------------

\* The Dashboard (rolling average) has computed and stored its statistics.
DashboardDone == route = "dashboard" /\ ~loading /\ stats # <<>>
\* The Dashboard of src/components/Dashboard.jsx has done so.
DashboardJsxDone == route = "dashboardJsx" /\ ~loading /\ stats # <<>>
\* The Landing page has stored its quick statistics.
LandingDone == route = "landing" /\ ~loading /\ stats # <<>>

\* The health summaries of a finished Dashboard: top10Revenue lists every
\* summary while there are at most TopCount of them.
Summaries == stats[1].top10Revenue

\* The rows of an organization, and the sum of a column over a set of rows,
\* null counted as 0.
RowsOf(id) == {i \in 1..Len(financials) : financials[i].organization_id = id}
RowsOfYear(y) == {i \in 1..Len(financials) : financials[i].year = y}
RetainedYears == {financials[i].year : i \in {j \in 1..Len(financials) : financials[j].year <= 2023}}

RECURSIVE SumRows(_, _)
SumRows(S, field) ==
    IF S = {} THEN 0
    ELSE LET i == CHOOSE j \in S : TRUE
             v == financials[i][field]
         IN  (IF v = <<>> THEN 0 ELSE v[1]) + SumRows(S \ {i}, field)

\* The rows of the rolling window of a summary: the organization's rows of
\* the years analysed.
WindowRows(h) ==
    {i \in RowsOf(h.id) : financials[i].year \in SeqToSet(h.yearsAnalyzed)}

\* C1: a margin of exactly 5 is 'stable'; only a margin strictly above 5 is
\* 'healthy'.
C1_UpperBoundaryStable ==
    DashboardDone =>
        \A k \in 1..Len(Summaries) :
            Summaries[k].health = "healthy" <=> RatGT(Summaries[k].margin, RatInt(5))

\* C2: in both copies of the aggregation an organization is 'at-risk' if and
\* only if its margin is strictly below -5.
C2_AtRiskBelowMinusFive ==
    (DashboardDone \/ DashboardJsxDone) =>
        \A k \in 1..Len(Summaries) :
            Summaries[k].health = "at-risk" <=> RatLT(Summaries[k].margin, RatInt(-5))

\* C3: every summary carries one of the three categories, and the three
\* health counts add up to the number of summaries, one per organization
\* with a row.
C3_HealthPartition ==
    DashboardDone =>
        /\ \A k \in 1..Len(Summaries) :
              Summaries[k].health \in {"healthy", "stable", "at-risk"}
        /\ Len(Summaries) =
              Cardinality({i \in 1..Len(organizations) : RowsOf(organizations[i].id) # {}})
        /\ stats[1].healthCounts.healthy + stats[1].healthCounts.stable
              + stats[1].healthCounts.atRisk = Len(Summaries)

C3_Witness ==
    /\ DashboardDone
    /\ Len(Summaries) = 2
    /\ \E k \in 1..Len(Summaries) : Summaries[k].margin = RatInt(0)
    /\ \E k \in 1..Len(Summaries) : Summaries[k].margin # RatInt(0)

\* C4: the rolling window of an organization with recordCount rows holds
\* min(3, recordCount) distinct years, and they are its most recent years.
C4_RollingWindow ==
    DashboardDone =>
        \A k \in 1..Len(Summaries) :
            LET h     == Summaries[k]
                own   == {financials[i].year : i \in RowsOf(h.id)}
                used  == SeqToSet(h.yearsAnalyzed)
                count == Cardinality(RowsOf(h.id))
                want  == IF count < 3 THEN count ELSE 3
            IN  /\ Len(h.yearsAnalyzed) = want
                /\ Cardinality(used) = want
                /\ used \subseteq own
                /\ \A y \in used : \A z \in own \ used : z < y

\* An organization with four rows that arrive oldest first.
C4_Witness ==
    /\ DashboardDone
    /\ \E k \in 1..Len(Summaries) :
          /\ Cardinality(RowsOf(Summaries[k].id)) = 4
          /\ Len(Summaries[k].yearsAnalyzed) = 3
    /\ \E i, j \in RowsOf(1) : i < j /\ financials[i].year < financials[j].year

\* C5: revenue and expenses of a summary are the sums over the window rows
\* (null as 0) divided by the number of window rows, and the margin is
\* 100 * (avgRevenue - avgExpenses) / avgRevenue when avgRevenue is not 0;
\* the two worked examples come out as stated.
C5_WindowAverages ==
    DashboardDone =>
        \A k \in 1..Len(Summaries) :
            LET h    == Summaries[k]
                rows == WindowRows(h)
                n    == Cardinality(rows)
                rev  == SumRows(rows, "revenue")
                exp  == SumRows(rows, "expenses")
                pairs == {<<financials[i].revenue, financials[i].expenses>> : i \in rows}
            IN  /\ n = Len(h.yearsAnalyzed)
                /\ h.revenue.n * n = rev * h.revenue.d
                /\ h.expenses.n * n = exp * h.expenses.d
                /\ rev # 0 => h.margin.n * rev = 100 * (rev - exp) * h.margin.d
                /\ (n = 3 /\ pairs = {<< <<100000>>, <<90000>> >>, << <<110000>>, <<95000>> >>,
                                      << <<120000>>, <<80000>> >>})
                      => h.revenue = RatInt(110000) /\ h.health = "healthy"
                /\ pairs = {<< <<50000>>, <<60000>> >>}
                      => h.margin = RatInt(-20) /\ h.health = "at-risk"

\* The three-year example, with a null among other windows' amounts.
C5_Witness ==
    /\ DashboardDone
    /\ \E k \in 1..Len(Summaries) :
          /\ Len(Summaries[k].yearsAnalyzed) = 3
          /\ Summaries[k].revenue = RatInt(110000)
          /\ Summaries[k].expenses = Rat(265000, 3)

\* C6: an averaged revenue of 0 gives the margin 0 and the category
\* 'stable', whatever the expenses.
C6_ZeroRevenue ==
    DashboardDone =>
        \A k \in 1..Len(Summaries) :
            SumRows(WindowRows(Summaries[k]), "revenue") = 0 =>
                /\ Summaries[k].margin = RatInt(0)
                /\ Summaries[k].margin.d > 0
                /\ Summaries[k].health = "stable"

\* Zero revenue against non-zero expenses.
C6_Witness ==
    /\ DashboardDone
    /\ \E k \in 1..Len(Summaries) :
          /\ SumRows(WindowRows(Summaries[k]), "revenue") = 0
          /\ SumRows(WindowRows(Summaries[k]), "expenses") > 0
          /\ \E i \in WindowRows(Summaries[k]) : financials[i].revenue = <<>>
          /\ \E i \in WindowRows(Summaries[k]) : financials[i].revenue = <<0>>

\* C7: with no financial row of a year <= 2023 the Dashboard still gets a
\* statistics object, with zero latest-year totals and an empty year series.
C7_EmptyYearsNoCrash ==
    (route = "dashboard" /\ ~loading /\ RetainedYears = {}) =>
        /\ stats # <<>>
        /\ stats[1].totalRevenue = 0
        /\ stats[1].totalExpenses = 0
        /\ stats[1].totalAssets = 0
        /\ stats[1].revenueByYear = <<>>

\* C8: the year series has one entry per distinct input year <= 2023, in
\* strictly ascending order of year.
C8_YearSeriesOrdered ==
    DashboardDone =>
        LET series == stats[1].revenueByYear
        IN  /\ {series[k].year : k \in 1..Len(series)} = RetainedYears
            /\ Len(series) = Cardinality(RetainedYears)
            /\ \A k \in 1..Len(series) : series[k].year <= 2023
            /\ \A k \in 1..(Len(series) - 1) : series[k].year < series[k + 1].year

\* Rows of three retained years arriving out of order, and a row of 2024.
C8_Witness ==
    /\ DashboardDone
    /\ Len(stats[1].revenueByYear) = 3
    /\ \E i \in 1..Len(financials) : financials[i].year > 2023
    /\ \E i, j \in 1..Len(financials) :
          i < j /\ financials[i].year > financials[j].year /\ financials[i].year <= 2023
    /\ \E i, j \in 1..Len(financials) :
          i < j /\ financials[i].year < financials[j].year

\* C9: each year's revenue, expenses and assets totals are the sums over
\* exactly the rows of that year, of all organizations, null as 0; rows of
\* a year above 2023 enter no total.
C9_YearTotals ==
    DashboardDone =>
        LET series == stats[1].revenueByYear
            totals == byYear(financials)
        IN  /\ \A k \in 1..Len(series) :
                  /\ series[k].revenue = SumRows(RowsOfYear(series[k].year), "revenue")
                  /\ series[k].expenses = SumRows(RowsOfYear(series[k].year), "expenses")
            /\ \A y \in DOMAIN totals :
                  totals[y].assets = SumRows(RowsOfYear(y), "assets")
            /\ stats[1].totalAssets = SumRows(RowsOfYear(MaxOf(RetainedYears)), "assets")
            /\ \A i \in 1..Len(financials) :
                  financials[i].year > 2023 => financials[i].year \notin DOMAIN totals

\* Two organizations report 2023, one of them with nulls, and a filled row
\* of 2024 exists.
C9_Witness ==
    /\ DashboardDone
    /\ \E i, j \in RowsOfYear(2023) :
          /\ financials[i].organization_id # financials[j].organization_id
          /\ financials[i].revenue = <<>>
          /\ financials[j].revenue # <<>>
    /\ \E i \in 1..Len(financials) :
          financials[i].year > 2023 /\ financials[i].revenue # <<>>

\* C10: the Dashboard's latest-year revenue and the Landing page's annual
\* revenue are both the revenue of the latest year <= 2023.
C10_TotalsWithinCutoff ==
    LET want == IF RetainedYears = {} THEN 0
                ELSE SumRows(RowsOfYear(MaxOf(RetainedYears)), "revenue")
    IN  /\ DashboardDone => stats[1].totalRevenue = want
        /\ LandingDone => stats[1].totalRevenue = want

\* The years of the rolling window of an organization, from its rows: the
\* years with fewer than three later years of its own.
WindowYears(id) ==
    LET own == {financials[i].year : i \in RowsOf(id)}
    IN  {y \in own : Cardinality({z \in own : z > y}) < 3}

\* The row of the latest year of an organization.
LatestRow(id) ==
    CHOOSE i \in RowsOf(id) : \A j \in RowsOf(id) : financials[j].year <= financials[i].year

\* C12: the assets of a summary are the assets of the organization's most
\* recent row, null as 0, not an average or another row's value.
C12_LatestAssets ==
    DashboardDone =>
        \A k \in 1..Len(Summaries) :
            LET v == financials[LatestRow(Summaries[k].id)].assets
            IN  Summaries[k].assets = IF v = <<>> THEN 0 ELSE v[1]

\* The latest row has null assets while an older window row has some.
C12_Witness ==
    /\ DashboardDone
    /\ \E k \in 1..Len(Summaries) :
          /\ financials[LatestRow(Summaries[k].id)].assets = <<>>
          /\ Summaries[k].assets = 0
          /\ \E i \in WindowRows(Summaries[k]) :
                financials[i].assets # <<>> /\ financials[i].assets[1] > 0

\* C17: the year-range label is the single year when the window has one
\* record, and otherwise min-max of the years used (<<y>> stands for "y",
\* <<a, b>> for "a-b").
C17_YearRangeLabel ==
    DashboardDone =>
        \A k \in 1..Len(Summaries) :
            LET used == WindowYears(Summaries[k].id)
            IN  Summaries[k].yearRange =
                    IF Cardinality(used) = 1
                    THEN <<CHOOSE y \in used : TRUE>>
                    ELSE <<CHOOSE y \in used : \A z \in used : y <= z,
                           CHOOSE y \in used : \A z \in used : z <= y>>

\* One organization with a single row, another with a window of years that
\* are not contiguous.
C17_Witness ==
    /\ DashboardDone
    /\ \E k \in 1..Len(Summaries) : Summaries[k].yearRange = <<2023>>
    /\ \E k \in 1..Len(Summaries) : Summaries[k].yearRange = <<2021, 2024>>


\* ------------------------------------------------------------------------
\* Properties of calculateStats called directly (SpecAggregator)
\* ------------------------------------------------------------------------

\* calculateStats has returned to a direct caller.
AggregatorDone == route = "calculateStats" /\ ~loading /\ stats # <<>>
\* calculateStats has returned, to the Dashboard or to a direct caller.
StatsDone == DashboardDone \/ AggregatorDone

OrgIds == {organizations[i].id : i \in 1..Len(organizations)}
OrgsWithRows == {id \in OrgIds : RowsOf(id) # {}}
IdsOf(list) == {list[k].id : k \in 1..Len(list)}

\* C11: an organization with no financial record is in none of the four
\* leaderboards and in no health or size count, is still counted in
\* orgCount, and causes no error.
C11_NoRecordsOrg ==
    /\ (route = "calculateStats" /\ ~loading /\ RetainedYears # {}) => stats # <<>>
    /\ AggregatorDone =>
          /\ stats[1].orgCount = Len(organizations)
          /\ stats[1].healthCounts.healthy + stats[1].healthCounts.stable
                + stats[1].healthCounts.atRisk = Cardinality(OrgsWithRows)
          /\ stats[1].sizeDistribution.small + stats[1].sizeDistribution.medium
                + stats[1].sizeDistribution.large = Cardinality(OrgsWithRows)
          /\ \A id \in OrgIds \ OrgsWithRows :
                id \notin IdsOf(stats[1].top10Revenue) \cup IdsOf(stats[1].top10Assets)
                          \cup IdsOf(stats[1].strongest) \cup IdsOf(stats[1].weakest)

C11_Witness ==
    /\ AggregatorDone
    /\ OrgIds \ OrgsWithRows # {}
    /\ Cardinality(OrgsWithRows) >= 2
    /\ stats[1].orgCount > Cardinality(OrgsWithRows)

\* The rows of an organization's rolling window, and its averaged revenue
\* as the pair sum, count (the average is sum / count).
WindowOf(id) == {i \in RowsOf(id) : financials[i].year \in WindowYears(id)}
RevenueSum(id) == SumRows(WindowOf(id), "revenue")
RevenueCount(id) == Cardinality(WindowOf(id))

\* C13: the size buckets count the summaries with averaged revenue below
\* 100,000 (small), from 100,000 to below 1,000,000 (medium) and from
\* 1,000,000 on (large), and together count every summary once.
C13_SizeBuckets ==
    StatsDone =>
        LET small  == {id \in OrgsWithRows : RevenueSum(id) < 100000 * RevenueCount(id)}
            medium == {id \in OrgsWithRows : /\ RevenueSum(id) >= 100000 * RevenueCount(id)
                                             /\ RevenueSum(id) < 1000000 * RevenueCount(id)}
            large  == {id \in OrgsWithRows : RevenueSum(id) >= 1000000 * RevenueCount(id)}
        IN  /\ stats[1].sizeDistribution.small = Cardinality(small)
            /\ stats[1].sizeDistribution.medium = Cardinality(medium)
            /\ stats[1].sizeDistribution.large = Cardinality(large)
            /\ stats[1].sizeDistribution.small + stats[1].sizeDistribution.medium
                  + stats[1].sizeDistribution.large = Cardinality(OrgsWithRows)

\* Summaries with averaged revenue of exactly 100,000 and exactly 1,000,000
\* beside 99,999 and 999,999.
C13_Witness ==
    /\ AggregatorDone
    /\ \E a, b, c, d \in OrgsWithRows :
          /\ RevenueSum(a) = 99999 /\ RevenueSum(b) = 100000
          /\ RevenueSum(c) = 999999 /\ RevenueSum(d) = 1000000
          /\ \A id \in {a, b, c, d} : RevenueCount(id) = 1
    /\ stats[1].sizeDistribution.small > 0
    /\ stats[1].sizeDistribution.medium > 1
    /\ stats[1].sizeDistribution.large > 0

\* The assets column of an organization's latest row.
LatestAssets(id) == financials[LatestRow(id)].assets

\* C14: every entry of the two margin leaderboards has an averaged revenue
\* of at least 50,000; every entry of the assets leaderboard has latest
\* assets above 0, so an organization whose latest assets are null (read
\* as 0) is never in it.
C14_LeaderboardFilters ==
    StatsDone =>
        /\ \A id \in IdsOf(stats[1].strongest) \cup IdsOf(stats[1].weakest) :
              RevenueSum(id) >= 50000 * RevenueCount(id)
        /\ \A k \in 1..Len(stats[1].top10Assets) :
              /\ stats[1].top10Assets[k].assets > 0
              /\ LatestAssets(stats[1].top10Assets[k].id) # <<>>
              /\ LatestAssets(stats[1].top10Assets[k].id)[1] > 0
        /\ \A id \in OrgsWithRows :
              LatestAssets(id) = <<>> => id \notin IdsOf(stats[1].top10Assets)

\* Revenue of exactly 50,000 is on the margin leaderboards and 49,999 is
\* not; null and zero latest assets stay off a non-empty assets leaderboard.
C14_Witness ==
    /\ AggregatorDone
    /\ \E a, b \in OrgsWithRows :
          /\ RevenueSum(a) = 50000 /\ RevenueCount(a) = 1
          /\ a \in IdsOf(stats[1].strongest) \cap IdsOf(stats[1].weakest)
          /\ RevenueSum(b) = 49999 /\ RevenueCount(b) = 1
          /\ b \in IdsOf(stats[1].top10Assets)
    /\ \E c, d \in OrgsWithRows :
          /\ LatestAssets(c) = <<>>
          /\ LatestAssets(d) = <<0>>

\* Organization a's averaged revenue is at least organization b's.
RevenueGE(a, b) == RevenueSum(a) * RevenueCount(b) >= RevenueSum(b) * RevenueCount(a)
\* An organization's latest assets, null as 0.
AssetsOf(id) == IF LatestAssets(id) = <<>> THEN 0 ELSE LatestAssets(id)[1]
Min(a, b) == IF a < b THEN a ELSE b

\* C15: top10Revenue (every summary, by averaged revenue) and top10Assets
\* (summaries with assets > 0, by assets) are in non-increasing key order,
\* hold min(10, eligible) distinct eligible organizations, and leave out no
\* eligible organization with a key above an included one.
C15_TopTen ==
    StatsDone =>
        LET rev == stats[1].top10Revenue
            ast == stats[1].top10Assets
            withAssets == {id \in OrgsWithRows : AssetsOf(id) > 0}
        IN  /\ Len(rev) = Min(10, Cardinality(OrgsWithRows))
            /\ IdsOf(rev) \subseteq OrgsWithRows
            /\ Cardinality(IdsOf(rev)) = Len(rev)
            /\ \A k \in 1..(Len(rev) - 1) : RevenueGE(rev[k].id, rev[k + 1].id)
            /\ \A in \in IdsOf(rev) : \A out \in OrgsWithRows \ IdsOf(rev) : RevenueGE(in, out)
            /\ Len(ast) = Min(10, Cardinality(withAssets))
            /\ IdsOf(ast) \subseteq withAssets
            /\ Cardinality(IdsOf(ast)) = Len(ast)
            /\ \A k \in 1..(Len(ast) - 1) : AssetsOf(ast[k].id) >= AssetsOf(ast[k + 1].id)
            /\ \A in \in IdsOf(ast) : \A out \in withAssets \ IdsOf(ast) :
                  AssetsOf(in) >= AssetsOf(out)

\* Eleven summaries, all with assets above 0: both lists are cut to ten,
\* with equal keys among the entries and unequal first and last keys.
C15_Witness ==
    /\ AggregatorDone
    /\ Cardinality({id \in OrgsWithRows : AssetsOf(id) > 0}) = 11
    /\ Len(stats[1].top10Revenue) = 10
    /\ Len(stats[1].top10Assets) = 10
    /\ stats[1].top10Revenue[1].revenue # stats[1].top10Revenue[10].revenue
    /\ stats[1].top10Revenue[1].revenue = stats[1].top10Revenue[2].revenue
    /\ stats[1].top10Assets[1].assets > stats[1].top10Assets[10].assets

\* The organizations eligible for the margin leaderboards, the position of
\* an organization in a list, and the parts of C16 that hold of the code.
MarginOrgs == {id \in OrgsWithRows : RevenueSum(id) >= 50000 * RevenueCount(id)}
PosIn(list, id) == CHOOSE k \in 1..Len(list) : list[k].id = id
MarginListsSorted ==
    LET s == stats[1].strongest
        w == stats[1].weakest
    IN  /\ \A k \in 1..(Len(s) - 1) : RatGE(s[k].margin, s[k + 1].margin)
        /\ \A k \in 1..(Len(w) - 1) : RatGE(w[k + 1].margin, w[k].margin)
        /\ Len(s) = Min(5, Cardinality(MarginOrgs))
        /\ Len(w) = Min(5, Cardinality(MarginOrgs))
        /\ IdsOf(s) \subseteq MarginOrgs /\ Cardinality(IdsOf(s)) = Len(s)
        /\ IdsOf(w) \subseteq MarginOrgs /\ Cardinality(IdsOf(w)) = Len(w)
MarginListsReversed ==
    LET s == stats[1].strongest
        w == stats[1].weakest
    IN  \A k \in 1..Len(s) : w[k].id = s[Len(s) + 1 - k].id

\* C16 as stated: strongest is sorted by margin descending and weakest
\* ascending, each of length min(5, eligible); with at most 5 eligible
\* summaries the two lists hold the same organizations in reverse order.
C16_ReverseOrder ==
    StatsDone =>
        /\ MarginListsSorted
        /\ Cardinality(MarginOrgs) <= 5 =>
              /\ IdsOf(stats[1].strongest) = IdsOf(stats[1].weakest)
              /\ MarginListsReversed

\* C16 amended: as above, but with at most 5 eligible summaries the lists
\* hold the same organizations, in reverse order when no two margins are
\* equal; organizations with equal margins keep their relative order in
\* both lists.
C16_ReverseOrderUnlessTied ==
    StatsDone =>
        LET s == stats[1].strongest
            w == stats[1].weakest
        IN  /\ MarginListsSorted
            /\ Cardinality(MarginOrgs) <= 5 =>
                  /\ IdsOf(s) = IdsOf(w)
                  /\ (\A j, k \in 1..Len(s) : j # k => s[j].margin # s[k].margin)
                        => MarginListsReversed
                  /\ \A j, k \in 1..Len(s) :
                        (j < k /\ s[j].margin = s[k].margin)
                            => PosIn(w, s[j].id) < PosIn(w, s[k].id)

\* Three to five eligible summaries with distinct margins, in reverse order
\* in the two lists.
C16_Witness ==
    /\ AggregatorDone
    /\ Cardinality(MarginOrgs) \in 3..5
    /\ Cardinality(OrgsWithRows) > Cardinality(MarginOrgs)
    /\ \A j, k \in 1..Len(stats[1].strongest) :
          j # k => stats[1].strongest[j].margin # stats[1].strongest[k].margin
    /\ MarginListsReversed
    /\ stats[1].strongest[1].id # stats[1].weakest[1].id

\* Two eligible summaries with equal margins: the same order in both lists.
C16_TiedWitness ==
    /\ AggregatorDone
    /\ Cardinality(MarginOrgs) \in 2..5
    /\ \E j, k \in 1..Len(stats[1].strongest) :
          j # k /\ stats[1].strongest[j].margin = stats[1].strongest[k].margin
    /\ ~MarginListsReversed

RECURSIVE SeriesRevenue(_, _)
SeriesRevenue(series, k) ==
    IF k = 0 THEN 0 ELSE series[k].revenue + SeriesRevenue(series, k - 1)

\* C20: the Dashboard aggregates every financial record of the data
\* source, also when the source holds more rows than one response: the
\* series has every year up to 2023, its revenue adds up to the revenue of
\* all rows of those years, and every organization with a row is counted.
C20_EveryRecordAggregated ==
    DashboardDone =>
        LET series == stats[1].revenueByYear
        IN  /\ {series[k].year : k \in 1..Len(series)} = RetainedYears
            /\ SeriesRevenue(series, Len(series))
                  = SumRows({i \in 1..Len(financials) : financials[i].year <= 2023}, "revenue")
            /\ stats[1].healthCounts.healthy + stats[1].healthCounts.stable
                  + stats[1].healthCounts.atRisk = Cardinality(OrgsWithRows)

\* C29: with a year <= 2023 present, the Dashboard's headline revenue and
\* expenses are those of the last entry of the year series, which is the
\* entry of the greatest retained year, the headline assets are the assets
\* total of that year, and yearRange is "min-max" of the retained years.
C29_HeadlineTotals ==
    (DashboardDone /\ RetainedYears # {}) =>
        LET series == stats[1].revenueByYear
            last   == series[Len(series)]
        IN  /\ last.year = MaxOf(RetainedYears)
            /\ \A k \in 1..Len(series) : series[k].year <= last.year
            /\ stats[1].totalRevenue = last.revenue
            /\ stats[1].totalExpenses = last.expenses
            /\ stats[1].totalAssets = SumRows(RowsOfYear(last.year), "assets")
            /\ stats[1].yearRange = <<MinOf(RetainedYears), MaxOf(RetainedYears)>>

\* Three retained years with different revenue totals in the first and the
\* last, and a row of 2024 beside them.
C29_Witness ==
    /\ DashboardDone
    /\ Cardinality(RetainedYears) = 3
    /\ stats[1].revenueByYear[1].revenue # stats[1].revenueByYear[3].revenue
    /\ stats[1].totalRevenue > 0
    /\ stats[1].yearRange = <<2021, 2023>>
    /\ \E i \in 1..Len(financials) : financials[i].year = 2024

\* The health category a result gives each organization of a leaderboard.
HealthIn(list) == {<<list[k].id, list[k].health>> : k \in 1..Len(list)}

\* C30: when every organization has exactly one record, the aggregation of
\* src/components/Dashboard.jsx returns the same health categories, size
\* buckets and leaderboard members as the aggregation the Dashboard of
\* part_000 has returned for the same collections.
C30_CopiesAgree ==
    (AggregatorDone /\ \A id \in OrgIds : Cardinality(RowsOf(id)) = 1) =>
        LET new == stats[1]
            old == calculateStatsJsx(organizations, financials)
        IN  /\ new.healthCounts = old.healthCounts
            /\ HealthIn(new.top10Revenue) = HealthIn(old.top10Revenue)
            /\ new.sizeDistribution = old.sizeDistribution
            /\ IdsOf(new.top10Assets) = IdsOf(old.top10Assets)
            /\ IdsOf(new.strongest) = IdsOf(old.strongest)
            /\ IdsOf(new.weakest) = IdsOf(old.weakest)

\* ------------------------------------------------------------------------
\* fetchDashboardData one await at a time, with requests that fail
\* ------------------------------------------------------------------------

Dashboards == {"dashboard", "dashboardJsx"}

\* if (loading) return <loading/>; if (!stats) return <error/>; else the
\* dashboard.
dashboardView ==
    IF loading THEN "loading" ELSE IF stats = <<>> THEN "error" ELSE "dashboard"

\* The call made on mount waits for the financials response.
InitLoad ==
    /\ organizations = Organizations
    /\ financials \in TablesF
    /\ route \in Dashboards
    /\ loading = TRUE
    /\ stats = <<>>
    /\ orgs = <<>>
    /\ home = <<>>
    /\ profile = <<>>
    /\ requests = <<[pc |-> "financials", financials |-> <<>>]>>
    /\ rendered = <<>>

\* await finResponse.json(): the rows are held and the organizations are
\* requested.
financialsArrive ==
    /\ route \in Dashboards
    /\ requests # <<>> /\ requests[1].pc = "financials"
    /\ requests' = <<[pc |-> "organizations", financials |-> serverResponse(financials)]>>
    /\ UNCHANGED <<organizations, financials, route, loading, stats, orgs,
                   home, profile, rendered>>

\* await orgsResponse.json(), calculateStats, setStats, setLoading(false);
\* a throw of calculateStats lands in the catch.
organizationsArrive ==
    /\ route \in Dashboards
    /\ requests # <<>> /\ requests[1].pc = "organizations"
    /\ LET fin     == requests[1].financials
           orgList == dashboardOrgs(fin)
       IN  IF calculateStatsThrows(orgList, fin)
           THEN /\ stats' = stats
                /\ requests' = <<[requests[1] EXCEPT !.pc = "caught"]>>
           ELSE /\ stats' = <<IF route = "dashboard"
                              THEN calculateStats(orgList, fin)
                              ELSE calculateStatsJsx(orgList, fin)>>
                /\ requests' = <<[requests[1] EXCEPT !.pc = "returned"]>>
    /\ loading' = FALSE
    /\ UNCHANGED <<organizations, financials, route, orgs, home, profile, rendered>>

\* Mutant: the catch logs the error and leaves loading as it is.
requestRejectsKeepsLoading ==
    /\ route \in Dashboards
    /\ requests # <<>> /\ requests[1].pc \in {"financials", "organizations"}
    /\ requests' = <<[requests[1] EXCEPT !.pc = "caught"]>>
    /\ UNCHANGED <<organizations, financials, route, loading, stats, orgs,
                   home, profile, rendered>>

\* A fetch rejects or a body is no JSON: the catch runs setLoading(false).
requestRejects ==
    /\ route \in Dashboards
    /\ requests # <<>> /\ requests[1].pc \in {"financials", "organizations"}
    /\ requests' = <<[requests[1] EXCEPT !.pc = "caught"]>>
    /\ loading' = FALSE
    /\ UNCHANGED <<organizations, financials, route, stats, orgs, home, profile, rendered>>

NextLoad == financialsArrive \/ organizationsArrive \/ requestRejects

SpecLoad == InitLoad /\ [][NextLoad]_vars

\* C26: the Dashboard starts loading with no stats; when the fetch
\* sequence has settled, by return or by catch, loading is false and never
\* true again; stats is set exactly when the sequence returned, and after a
\* catch the error view is shown, never a partly filled dashboard.
C26_LoadState ==
    /\ [](LET pc == requests[1].pc
          IN  /\ pc \in {"financials", "organizations"} => (loading /\ stats = <<>>)
              /\ pc \in {"returned", "caught"} => ~loading
              /\ stats # <<>> <=> pc = "returned"
              /\ pc = "caught" => dashboardView = "error"
              /\ pc = "returned" => dashboardView = "dashboard")
    /\ [][~loading => ~loading']_vars

\* The organizations request failed after the financials had arrived with
\* a year <= 2023: the error view without stats.
C26_Witness ==
    /\ requests[1].pc = "caught"
    /\ requests[1].financials # <<>>
    /\ \E i \in 1..Len(requests[1].financials) : requests[1].financials[i].year <= 2023
    /\ dashboardView = "error"

\* ------------------------------------------------------------------------
\* Strings as sequences of characters
\* ------------------------------------------------------------------------

UpperCase ==
    <<"A", "B", "C", "D", "E", "F", "G", "H", "I", "J", "K", "L", "M", "N", "O", "P", "Q", "R", "S", "T", "U", "V", "W", "X", "Y", "Z">>
LowerCase ==
    <<"a", "b", "c", "d", "e", "f", "g", "h", "i", "j", "k", "l", "m", "n", "o", "p", "q", "r", "s", "t", "u", "v", "w", "x", "y", "z">>

\* String.prototype.toLowerCase, character by character.
toLowerCaseChar(c) ==
    IF \E k \in 1..Len(UpperCase) : UpperCase[k] = c
    THEN LowerCase[CHOOSE k \in 1..Len(UpperCase) : UpperCase[k] = c]
    ELSE c
toLowerCase(s) == [k \in 1..Len(s) |-> toLowerCaseChar(s[k])]

\* String.prototype.toUpperCase of one character.
toUpperCaseChar(c) ==
    IF \E k \in 1..Len(LowerCase) : LowerCase[k] = c
    THEN UpperCase[CHOOSE k \in 1..Len(LowerCase) : LowerCase[k] = c]
    ELSE c

\* The positions at which sub occurs in s, and String.prototype.includes.
occurrences(s, sub) ==
    {k \in 1..(Len(s) - Len(sub) + 1) : SubSeq(s, k, k + Len(sub) - 1) = sub}
includes(s, sub) == sub = <<>> \/ occurrences(s, sub) # {}

\* ------------------------------------------------------------------------
\* Home: the Organizations page
\* ------------------------------------------------------------------------

\* The organizations table as Home reads it (order=name): the focus column
\* is null, <<"array", elements>>, or <<"text", tokens>> for a text.
OrganizationsHome ==
    <<[id |-> 3, name |-> <<"A", "i", "r", " ", "N", "o", "w">>, focus |-> <<"text", <<"{", "Water", "}">>>>],
      [id |-> 4, name |-> <<"L", "a", "k", "e">>, focus |-> Null],
      [id |-> 2, name |-> <<"r", "i", "M">>,
       focus |-> <<"text", <<"[", "Water", ",", "Wetlands", "]">>>>],
      [id |-> 1, name |-> <<"R", "i", "v", "e", "r">>,
       focus |-> <<"array", <<"Water", "Wildlife">>>>]>>

\* JSON.parse of a text holding an array of strings: the strings, or <<>>
\* marked as thrown when the tokens are no JSON array.
JSONparseArray(tokens) ==
    LET n == Len(tokens)
        ok == /\ n >= 2 /\ tokens[1] = "[" /\ tokens[n] = "]"
              /\ (n = 2 \/ n % 2 = 1)
              /\ \A k \in 2..(n - 1) :
                    IF k % 2 = 1 THEN tokens[k] = ","
                    ELSE tokens[k] \notin {"[", "]", ",", "{", "}"}
    IN  IF ok THEN [thrown |-> FALSE,
                    value  |-> [k \in 1..((n - 1) \div 2) |-> tokens[2 * k]]]
        ELSE [thrown |-> TRUE, value |-> <<>>]

\* parseFocus: [] for null and for a text that does not parse, the array
\* itself, or the parsed text.
parseFocus(focus) ==
    IF focus = Null THEN <<>>
    ELSE IF focus[1] = "array" THEN focus[2]
    ELSE IF JSONparseArray(focus[2]).thrown THEN <<>>
    ELSE JSONparseArray(focus[2]).value

\* The financial tables Home is mounted over: up to one row more than a
\* response holds, each row of organization 1 or 2, one year per row.
TablesHome ==
    UNION {{[k \in 1..n |-> FinancialRow(<<ids[k], 2017 + k>>,
                                [revenue |-> <<100000>>, expenses |-> <<90000>>,
                                 assets |-> Null])] :
              ids \in [1..n -> {1, 2}]} : n \in 0..(ServerMaxRows + 1)}

SearchInputs ==
    {<<>>, <<"r", "i">>, <<"R", "I">>, <<"k", "e">>, <<"z">>}
DataFilters == {"all", "with-data", "without-data"}
FocusFilters == {"all", "Water", "Wetlands", "Wildlife"}

\* Mutant: 'without-data' lists the organizations with data as well.
filteredOrgsDataIgnored(orgList, search, dataFilter, focusFilter) ==
    LET keep == {k \in 1..Len(orgList) :
                    /\ includes(toLowerCase(orgList[k].name), toLowerCase(search))
                    /\ (dataFilter = "with-data" => orgList[k].hasFinancials)
                    /\ (focusFilter # "all"
                          => focusFilter \in SeqToSet(orgList[k].focusAreas))}
    IN  FilterIdx(orgList, keep, 1)

\* orgs.filter(org => matchesSearch && matchesData && matchesFocus)
filteredOrgs(orgList, search, dataFilter, focusFilter) ==
    LET matchesSearch(org) == includes(toLowerCase(org.name), toLowerCase(search))
        matchesData(org) ==
            IF dataFilter = "with-data" THEN org.hasFinancials
            ELSE IF dataFilter = "without-data" THEN ~org.hasFinancials
            ELSE TRUE
        matchesFocus(org) ==
            IF focusFilter # "all" THEN focusFilter \in SeqToSet(org.focusAreas)
            ELSE TRUE
        keep == {k \in 1..Len(orgList) :
                    matchesSearch(orgList[k]) /\ matchesData(orgList[k])
                        /\ matchesFocus(orgList[k])}
    IN  FilterIdx(orgList, keep, 1)

\* What Home shows: the three counts of the header and the buttons, and
\* the cards (none while loading), each with its badge.
homeView(orgList, view, isLoading) ==
    LET withData == Cardinality({k \in 1..Len(orgList) : orgList[k].hasFinancials})
        listed   == filteredOrgs(orgList, view.search, view.dataFilter, view.focusFilter)
    IN  [total            |-> Len(orgList),
         withDataCount    |-> withData,
         withoutDataCount |-> Len(orgList) - withData,
         cards            |-> IF isLoading THEN <<>>
                              ELSE [k \in 1..Len(listed) |->
                                      [id    |-> listed[k].id,
                                       badge |-> IF listed[k].hasFinancials
                                                 THEN "Financial data available"
                                                 ELSE "Contact info only"]]]

InitHome ==
    /\ organizations = OrganizationsHome
    /\ financials \in TablesHome
    /\ route = "home"
    /\ loading = TRUE
    /\ stats = <<>>
    /\ orgs = <<>>
    /\ home = [search |-> <<>>, dataFilter |-> "all", focusFilter |-> "all"]
    /\ profile = <<>>
    /\ requests = <<>>
    /\ rendered = homeView(<<>>, home, TRUE)

\* Home.fetchOrgs: one request for the organizations, one for the
\* organization_id of the financial rows; the flags are set and shown.
fetchOrgs ==
    /\ route = "home"
    /\ loading
    /\ LET orgsData == serverResponse(organizations)
           finData  == serverResponse(financials)
           finCounts(id) == Cardinality({k \in 1..Len(finData) :
                                            finData[k].organization_id = id})
           orgsWithFlags ==
               [k \in 1..Len(orgsData) |->
                   [id            |-> orgsData[k].id,
                    name          |-> orgsData[k].name,
                    hasFinancials |-> finCounts(orgsData[k].id) > 0,
                    focusAreas    |-> parseFocus(orgsData[k].focus)]]
       IN  /\ orgs' = orgsWithFlags
           /\ rendered' = homeView(orgsWithFlags, home, FALSE)
    /\ loading' = FALSE
    /\ UNCHANGED <<organizations, financials, route, stats, home, profile, requests>>

\* onChange and onClick of the search box, the buttons and the dropdown.
setSearch ==
    /\ route = "home"
    /\ \E s \in SearchInputs \ {home.search} :
          /\ home' = [home EXCEPT !.search = s]
          /\ rendered' = homeView(orgs, home', loading)
    /\ UNCHANGED <<organizations, financials, route, loading, stats, orgs, profile, requests>>

setDataFilter ==
    /\ route = "home"
    /\ \E f \in DataFilters \ {home.dataFilter} :
          /\ home' = [home EXCEPT !.dataFilter = f]
          /\ rendered' = homeView(orgs, home', loading)
    /\ UNCHANGED <<organizations, financials, route, loading, stats, orgs, profile, requests>>

setFocusFilter ==
    /\ route = "home"
    /\ \E f \in FocusFilters \ {home.focusFilter} :
          /\ home' = [home EXCEPT !.focusFilter = f]
          /\ rendered' = homeView(orgs, home', loading)
    /\ UNCHANGED <<organizations, financials, route, loading, stats, orgs, profile, requests>>

NextHome == fetchOrgs \/ setSearch \/ setDataFilter \/ setFocusFilter

SpecHome == InitHome /\ [][NextHome]_vars

\* The organizations Home would list under a data filter, with the search
\* and the focus filter as they are.
ListedUnder(dataFilter) ==
    IdsOf(filteredOrgs(orgs, home.search, dataFilter, home.focusFilter))
HomeLoaded == route = "home" /\ ~loading /\ orgs # <<>>

\* C28: on the Organizations page the lists under 'with-data' and
\* 'without-data' are disjoint and together are the list under 'all'; a
\* listed organization satisfies the search, the data filter and the focus
\* filter; the two counts add up to the number of organizations.
C28_FilterPartition ==
    route = "home" =>
        /\ ListedUnder("with-data") \cap ListedUnder("without-data") = {}
        /\ ListedUnder("with-data") \cup ListedUnder("without-data") = ListedUnder("all")
        /\ \A c \in 1..Len(rendered.cards) :
              \E k \in 1..Len(orgs) :
                 /\ orgs[k].id = rendered.cards[c].id
                 /\ includes(toLowerCase(orgs[k].name), toLowerCase(home.search))
                 /\ home.dataFilter = "with-data" => orgs[k].hasFinancials
                 /\ home.dataFilter = "without-data" => ~orgs[k].hasFinancials
                 /\ home.focusFilter # "all" =>
                       \E j \in 1..Len(orgs[k].focusAreas) :
                          orgs[k].focusAreas[j] = home.focusFilter
        /\ ~loading => IdsOf(rendered.cards) = ListedUnder(home.dataFilter)
        /\ rendered.withDataCount + rendered.withoutDataCount = Len(orgs)
        /\ rendered.total = Len(orgs)

\* A search in another case than the names, a focus filter and the
\* 'without-data' filter together list one organization of several, while
\* another is listed under 'with-data'.
C28_Witness ==
    /\ HomeLoaded
    /\ home.search = <<"R", "I">>
    /\ home.focusFilter = "Water"
    /\ home.dataFilter = "without-data"
    /\ Len(rendered.cards) = 1
    /\ ListedUnder("with-data") # {}
    /\ Cardinality(ListedUnder("all")) < Len(orgs)
    /\ rendered.withDataCount > 0 /\ rendered.withoutDataCount > 1

\* C21: once Home has loaded, an organization is flagged hasFinancials and
\* its card shows 'Financial data available' whenever the financials table
\* has a row of it, also when the table has more rows than one response.
C21_EveryOrgWithRowsFlagged ==
    HomeLoaded =>
        /\ \A k \in 1..Len(orgs) :
              RowsOf(orgs[k].id) # {} => orgs[k].hasFinancials
        /\ \A c \in 1..Len(rendered.cards) :
              RowsOf(rendered.cards[c].id) # {}
                  => rendered.cards[c].badge = "Financial data available"

\* ------------------------------------------------------------------------
\* The pagination loop over the financial rows
\* ------------------------------------------------------------------------

\* const pageSize = 1000: the limit of one request, which is the most rows
\* the data source returns; scaled with it.
pageSize == ServerMaxRows

\* The most full pages a table of the loop's runs has.
MaxPages == 2

\* financials?select=organization_id&offset=..&limit=..: the rows after
\* the first offset ones, at most limit and at most ServerMaxRows of them.
serverPage(rows, offset, limit) ==
    LET last == Min(Len(rows), offset + Min(limit, ServerMaxRows))
    IN  [k \in 1..(IF last > offset THEN last - offset ELSE 0) |->
            [organization_id |-> rows[offset + k].organization_id]]

\* Tables of every length up to MaxPages full pages and one row; the first
\* three rows are of organization 1 or 2, the others of both in turn.
TablesPages ==
    UNION {{[k \in 1..n |-> FinancialRow(<<IF k <= 3 THEN first[k] ELSE (k % 2) + 1, 2000 + k>>,
                                [revenue |-> <<100000>>, expenses |-> <<90000>>,
                                 assets |-> Null])] :
              first \in [1..3 -> {1, 2}]} : n \in 0..(MaxPages * pageSize + 1)}

\* allFinData = [], offset = 0, and the first request is in flight.
InitPages ==
    /\ organizations = OrganizationsHome
    /\ financials \in TablesPages
    /\ route = "home"
    /\ loading = TRUE
    /\ stats = <<>>
    /\ orgs = <<>>
    /\ home = [search |-> <<>>, dataFilter |-> "all", focusFilter |-> "all"]
    /\ profile = <<>>
    /\ requests = <<[pc |-> "page", offset |-> 0, allFinData |-> <<>>]>>
    /\ rendered = <<>>

\* Mutant: a full page ends the loop as well.
lastPageInclusive(page) == Len(page) <= pageSize

\* if (finData.length < pageSize) break
lastPage(page) == Len(page) < pageSize

\* One turn of the loop: the page arrives and is appended; a short page
\* ends the loop, otherwise the next page is requested.
pageArrives ==
    /\ requests # <<>> /\ requests[1].pc = "page"
    /\ LET call == requests[1]
           page == serverPage(financials, call.offset, pageSize)
       IN  requests' =
              <<[pc         |-> IF lastPage(page) THEN "done" ELSE "page",
                 offset     |-> IF lastPage(page) THEN call.offset
                                ELSE call.offset + pageSize,
                 allFinData |-> call.allFinData \o page]>>
    /\ UNCHANGED <<organizations, financials, route, loading, stats, orgs,
                   home, profile, rendered>>

NextPages == pageArrives

SpecPages == InitPages /\ [][NextPages]_vars /\ WF_vars(pageArrives)

\* C23: the loop ends for every table, after the first page shorter than
\* pageSize (an empty one when the row count is a multiple of pageSize),
\* and then allFinData holds the rows of the table once each, in order.
C23_LoopTerminates ==
    /\ <>(requests[1].pc = "done")
    /\ [](requests[1].offset <= Len(financials))
    /\ [](requests[1].pc = "done" =>
            /\ requests[1].allFinData
                  = [k \in 1..Len(financials) |->
                        [organization_id |-> financials[k].organization_id]]
            /\ requests[1].offset = pageSize * (Len(financials) \div pageSize))

\* The loop has ended on a table of exactly two full pages: the third
\* request returned the empty page.
C23_Witness ==
    /\ requests[1].pc = "done"
    /\ Len(financials) = 2 * pageSize
    /\ requests[1].offset = 2 * pageSize
    /\ Len(requests[1].allFinData) = 2 * pageSize

\* ------------------------------------------------------------------------
\* OrgProfile: the outlet name of a media mention
\* ------------------------------------------------------------------------

\* const domainMap = {...}: the keys and the names, in source order.
domainMap ==
    <<<<<<"b", "r", "i", "d", "g", "e", "m", "i", ".", "c", "o", "m">>,
        <<"B", "r", "i", "d", "g", "e", " ", "M", "i", "c", "h", "i", "g", "a", "n">>>>,
      <<<<"f", "r", "e", "e", "p", ".", "c", "o", "m">>,
        <<"D", "e", "t", "r", "o", "i", "t", " ", "F", "r", "e", "e", " ", "P", "r", "e", "s", "s">>>>,
      <<<<"d", "e", "t", "r", "o", "i", "t", "n", "e", "w", "s", ".", "c", "o", "m">>,
        <<"T", "h", "e", " ", "D", "e", "t", "r", "o", "i", "t", " ", "N", "e", "w", "s">>>>,
      <<<<"m", "l", "i", "v", "e", ".", "c", "o", "m">>,
        <<"M", "L", "i", "v", "e">>>>,
      <<<<"m", "i", "c", "h", "i", "g", "a", "n", "r", "a", "d", "i", "o", ".", "o", "r", "g">>,
        <<"M", "i", "c", "h", "i", "g", "a", "n", " ", "R", "a", "d", "i", "o">>>>,
      <<<<"s", "e", "c", "o", "n", "d", "w", "a", "v", "e", "m", "e", "d", "i", "a", ".", "c", "o", "m">>,
        <<"S", "e", "c", "o", "n", "d", " ", "W", "a", "v", "e", " ", "M", "e", "d", "i", "a">>>>,
      <<<<"m", "e", "t", "r", "o", "t", "i", "m", "e", "s", ".", "c", "o", "m">>,
        <<"M", "e", "t", "r", "o", " ", "T", "i", "m", "e", "s">>>>,
      <<<<"c", "r", "a", "i", "n", "s", "d", "e", "t", "r", "o", "i", "t", ".", "c", "o", "m">>,
        <<"C", "r", "a", "i", "n", "'", "s", " ", "D", "e", "t", "r", "o", "i", "t", " ", "B", "u", "s", "i", "n", "e", "s", "s">>>>,
      <<<<"d", "a", "i", "l", "y", "d", "e", "t", "r", "o", "i", "t", ".", "c", "o", "m">>,
        <<"D", "a", "i", "l", "y", " ", "D", "e", "t", "r", "o", "i", "t">>>>,
      <<<<"m", "o", "d", "e", "l", "D", "m", "e", "d", "i", "a", ".", "c", "o", "m">>,
        <<"M", "o", "d", "e", "l", " ", "D", " ", "M", "e", "d", "i", "a">>>>,
      <<<<"d", "e", "t", "r", "o", "i", "t", "i", "s", "i", "t", ".", "c", "o", "m">>,
        <<"D", "e", "t", "r", "o", "i", "t", " ", "I", "s", " ", "I", "t">>>>,
      <<<<"h", "o", "u", "r", "d", "e", "t", "r", "o", "i", "t", ".", "c", "o", "m">>,
        <<"H", "o", "u", "r", " ", "D", "e", "t", "r", "o", "i", "t">>>>,
      <<<<"i", "n", "t", "e", "r", "l", "o", "c", "h", "e", "n", ".", "o", "r", "g">>,
        <<"I", "n", "t", "e", "r", "l", "o", "c", "h", "e", "n", " ", "P", "u", "b", "l", "i", "c", " ", "R", "a", "d", "i", "o">>>>,
      <<<<"g", "r", "e", "a", "t", "l", "a", "k", "e", "s", "n", "o", "w", ".", "o", "r", "g">>,
        <<"G", "r", "e", "a", "t", " ", "L", "a", "k", "e", "s", " ", "N", "o", "w">>>>,
      <<<<"n", "e", "w", "s", ".", "g", "o", "o", "g", "l", "e", ".", "c", "o", "m">>,
        <<"G", "o", "o", "g", "l", "e", " ", "N", "e", "w", "s">>>>,
      <<<<"n", "p", "r", ".", "o", "r", "g">>,
        <<"N", "P", "R">>>>,
      <<<<"n", "y", "t", "i", "m", "e", "s", ".", "c", "o", "m">>,
        <<"T", "h", "e", " ", "N", "e", "w", " ", "Y", "o", "r", "k", " ", "T", "i", "m", "e", "s">>>>,
      <<<<"w", "a", "s", "h", "i", "n", "g", "t", "o", "n", "p", "o", "s", "t", ".", "c", "o", "m">>,
        <<"T", "h", "e", " ", "W", "a", "s", "h", "i", "n", "g", "t", "o", "n", " ", "P", "o", "s", "t">>>>>>

NewsSource == <<"N", "e", "w", "s", " ", "S", "o", "u", "r", "c", "e">>

\* The first position of sub in s, 0 when there is none (indexOf + 1).
firstOccurrence(s, sub) ==
    IF occurrences(s, sub) = {} THEN 0 ELSE MinOf(occurrences(s, sub))

\* new URL(url).hostname for an absolute URL scheme://host[:port][/...]:
\* <<hostname>>, in lower case as the parser returns it, or <<>> when the
\* constructor throws (no scheme).
URLhostname(url) ==
    LET sep  == firstOccurrence(url, <<":", "/", "/">>)
        rest == SubSeq(url, sep + 3, Len(url))
        ends == {k \in 1..Len(rest) : rest[k] \in {"/", "?", "#", ":"}}
        host == IF ends = {} THEN rest ELSE SubSeq(rest, 1, MinOf(ends) - 1)
    IN  IF sep <= 1 \/ \E k \in 1..(sep - 1) : url[k] \in {"/", ".", " "}
        THEN <<>>
        ELSE <<toLowerCase(host)>>

\* String.prototype.replace(sub, ''): the first occurrence of sub, wherever
\* it stands, is removed.
replaceFirst(s, sub) ==
    LET at == firstOccurrence(s, sub)
    IN  IF at = 0 THEN s
        ELSE SubSeq(s, 1, at - 1) \o SubSeq(s, at + Len(sub), Len(s))

\* hostname.split('.')[0]
firstLabel(hostname) ==
    LET dot == firstOccurrence(hostname, <<".">>)
    IN  IF dot = 0 THEN hostname ELSE SubSeq(hostname, 1, dot - 1)

\* label.charAt(0).toUpperCase() + label.slice(1)
capitalise(label) ==
    IF label = <<>> THEN <<>>
    ELSE <<toUpperCaseChar(label[1])>> \o SubSeq(label, 2, Len(label))

\* domainMap[hostname]: <<name>> or <<>> (undefined).
domainMapAt(hostname) ==
    LET hit == {k \in 1..Len(domainMap) : domainMap[k][1] = hostname}
    IN  IF hit = {} THEN <<>> ELSE <<domainMap[CHOOSE k \in hit : TRUE][2]>>

getOutletNameFromUrl(url) ==
    IF url = Null THEN NewsSource
    ELSE IF URLhostname(url) = <<>> THEN NewsSource
    ELSE LET hostname == replaceFirst(URLhostname(url)[1], <<"w", "w", "w", ".">>)
         IN  IF domainMapAt(hostname) # <<>> THEN domainMapAt(hostname)[1]
             ELSE capitalise(firstLabel(hostname))

\* mention.outlets?.name || getOutletNameFromUrl(mention.article_url)
outletName(mention) ==
    IF mention.outlets # Null /\ mention.outlets[1].name # <<>>
    THEN mention.outlets[1].name
    ELSE getOutletNameFromUrl(mention.article_url)

\* The article URLs of the mentions: hosts with and without 'www.', in
\* both cases, on and off the domain map, each bare and with a path; a URL
\* without scheme; no URL.
HostInputs ==
    {<<"w", "w", "w", ".", "b", "r", "i", "d", "g", "e", "m", "i", ".", "c", "o", "m">>,
     <<"b", "r", "i", "d", "g", "e", "m", "i", ".", "c", "o", "m">>,
     <<"W", "W", "W", ".", "F", "r", "e", "e", "p", ".", "c", "o", "m">>,
     <<"n", "e", "w", "s", ".", "g", "o", "o", "g", "l", "e", ".", "c", "o", "m">>,
     <<"w", "w", "w", ".", "m", "o", "d", "e", "l", "D", "m", "e", "d", "i", "a", ".", "c", "o", "m">>,
     <<"w", "w", "w", ".", "e", "x", "a", "m", "p", "l", "e", ".", "o", "r", "g">>,
     <<"g", "r", "e", "e", "n", "l", "a", "k", "e", ".", "o", "r", "g">>,
     <<"s", "t", "o", "p", "w", "w", "w", ".", "o", "r", "g">>,
     <<"n", "e", "w", "s", ".", "w", "w", "w", ".", "e", "x", "a", "m", "p", "l", "e", ".", "o", "r", "g">>,
     <<"N", "P", "R", ".", "o", "r", "g">>}
UrlInputs ==
    {<<"h", "t", "t", "p", "s", ":", "/", "/">> \o h \o p : h \in HostInputs, p \in {<<>>, <<"/">>, <<"/", "a", "/", "b", ".", "h", "t", "m", "l", "?", "x", "=", "1">>}}
    \cup {<<"b", "r", "i", "d", "g", "e", "m", "i", ".", "c", "o", "m", "/", "s", "t", "o", "r", "y">>, Null}
OutletInputs ==
    {Null, <<[name |-> <<"P", "l", "a", "n", "e", "t", " ", "D", "e", "t", "r", "o", "i", "t">>]>>}

\* ------------------------------------------------------------------------
\* OrgProfile: fetchOrgData, one await at a time
\* ------------------------------------------------------------------------

MaxNavigations == 2

\* The organizations table read by slug, the unknown slug of a mistyped
\* address, and the media_mentions table with its joined outlets.
OrganizationsProfile ==
    <<[id |-> 1, slug |-> "a"], [id |-> 2, slug |-> "b"]>>
Slugs == {"a", "b", "none"}
TablesProfile ==
    {<<[organization_id |-> 1, year |-> 2024], [organization_id |-> 2, year |-> 2024],
       [organization_id |-> 1, year |-> 2023]>>,
     <<[organization_id |-> 1, year |-> 2023], [organization_id |-> 1, year |-> 2024]>>}
MediaMentions ==
    <<[id |-> 1, organization_id |-> 1, outlets |-> Null, published_date |-> Null,
       article_url |-> <<"h", "t", "t", "p", "s", ":", "/", "/", "n", "p", "r", ".", "o", "r", "g", "/", "x">>],
      [id |-> 2, organization_id |-> 2, published_date |-> <<20240105>>,
       outlets |-> <<[name |-> <<"M", "L", "i", "v", "e">>]>>,
       article_url |-> Null],
      [id |-> 3, organization_id |-> 1, outlets |-> Null, published_date |-> <<20230611>>,
       article_url |-> Null]>>

\* organizations?slug=eq.${slug}&select=*
orgQuery(slug) ==
    serverResponse(FilterIdx(organizations,
        {k \in 1..Len(organizations) : organizations[k].slug = slug}, 1))

\* financials?organization_id=eq.${id}&order=year.desc
finQuery(id) ==
    LET own == FilterIdx(financials,
                   {k \in 1..Len(financials) : financials[k].organization_id = id}, 1)
    IN  serverResponse(StableSort(own,
            [i \in 1..Len(own) |-> [j \in 1..Len(own) |-> own[i].year > own[j].year]]))

\* media_mentions?organization_id=eq.${id}&select=*,outlets(name,url)
\*   &order=published_date.desc.nullslast
mediaQuery(id) ==
    LET own == FilterIdx(MediaMentions,
                   {k \in 1..Len(MediaMentions) : MediaMentions[k].organization_id = id}, 1)
    IN  serverResponse(StableSort(own,
            [i \in 1..Len(own) |-> [j \in 1..Len(own) |->
                /\ own[i].published_date # Null
                /\ (own[j].published_date = Null
                    \/ own[i].published_date[1] > own[j].published_date[1])]]))

\* The render: 'Loading...', 'Organization not found', or the profile with
\* the outlet name of every mention.
profileView(p, isLoading) ==
    IF isLoading THEN [view |-> "loading", outlets |-> <<>>]
    ELSE IF p.org = Null THEN [view |-> "not found", outlets |-> <<>>]
    ELSE [view |-> "profile",
          outlets |-> [k \in 1..Len(p.mediaMentions) |-> outletName(p.mediaMentions[k])]]

\* The component mounts on a slug: the effect calls fetchOrgData, which sets
\* loading and awaits the organization.
InitProfile ==
    /\ organizations = OrganizationsProfile
    /\ financials \in TablesProfile
    /\ route = "profile"
    /\ loading = TRUE
    /\ stats = <<>>
    /\ orgs = <<>>
    /\ home = <<>>
    /\ \E slug \in Slugs :
          /\ profile = [slug |-> slug, org |-> Null, financials |-> <<>>,
                        mediaMentions |-> <<>>]
          /\ requests = <<[slug |-> slug, pc |-> "org", id |-> 0]>>
    /\ rendered = profileView([org |-> Null, mediaMentions |-> <<>>], TRUE)

\* The route's slug changes: the component stays mounted with its state, the
\* effect calls fetchOrgData again.
navigate(slug) ==
    /\ route = "profile"
    /\ Len(requests) <= MaxNavigations
    /\ slug # profile.slug
    /\ profile' = [profile EXCEPT !.slug = slug]
    /\ loading' = TRUE
    /\ requests' = Append(requests, [slug |-> slug, pc |-> "org", id |-> 0])
    /\ rendered' = profileView(profile', TRUE)
    /\ UNCHANGED <<organizations, financials, route, stats, orgs, home>>

\* Mutant: no early return when the organization query has no rows.
orgDataArrivesNoReturn(i) ==
    /\ route = "profile"
    /\ i \in 1..Len(requests)
    /\ requests[i].pc = "org"
    /\ LET orgData == orgQuery(requests[i].slug)
       IN  IF orgData = <<>>
           THEN /\ profile' = [profile EXCEPT !.org = Null]
                /\ requests' = [requests EXCEPT ![i].pc = "financials"]
                /\ UNCHANGED loading
           ELSE /\ profile' = [profile EXCEPT !.org = <<orgData[1]>>]
                /\ requests' = [requests EXCEPT ![i].pc = "financials",
                                                ![i].id = orgData[1].id]
                /\ UNCHANGED loading
    /\ rendered' = profileView(profile', loading')
    /\ UNCHANGED <<organizations, financials, route, stats, orgs, home>>

\* The organization query of call i resolves.
orgDataArrives(i) ==
    /\ route = "profile"
    /\ i \in 1..Len(requests)
    /\ requests[i].pc = "org"
    /\ LET orgData == orgQuery(requests[i].slug)
       IN  IF orgData = <<>>
           THEN /\ profile' = [profile EXCEPT !.org = Null]
                /\ loading' = FALSE
                /\ requests' = [requests EXCEPT ![i].pc = "returned"]
           ELSE /\ profile' = [profile EXCEPT !.org = <<orgData[1]>>]
                /\ requests' = [requests EXCEPT ![i].pc = "financials",
                                                ![i].id = orgData[1].id]
                /\ UNCHANGED loading
    /\ rendered' = profileView(profile', loading')
    /\ UNCHANGED <<organizations, financials, route, stats, orgs, home>>

\* The financials query of call i resolves.
finDataArrives(i) ==
    /\ route = "profile"
    /\ i \in 1..Len(requests)
    /\ requests[i].pc = "financials"
    /\ profile' = [profile EXCEPT !.financials = finQuery(requests[i].id)]
    /\ requests' = [requests EXCEPT ![i].pc = "media"]
    /\ rendered' = profileView(profile', loading)
    /\ UNCHANGED <<organizations, financials, route, loading, stats, orgs, home>>

\* The media-mentions query of call i resolves; the call ends.
mediaDataArrives(i) ==
    /\ route = "profile"
    /\ i \in 1..Len(requests)
    /\ requests[i].pc = "media"
    /\ profile' = [profile EXCEPT !.mediaMentions = mediaQuery(requests[i].id)]
    /\ loading' = FALSE
    /\ requests' = [requests EXCEPT ![i].pc = "returned"]
    /\ rendered' = profileView(profile', FALSE)
    /\ UNCHANGED <<organizations, financials, route, stats, orgs, home>>

\* One of the awaits of call i rejects: the catch block.
fetchRejects(i) ==
    /\ route = "profile"
    /\ i \in 1..Len(requests)
    /\ requests[i].pc \in {"org", "financials", "media"}
    /\ loading' = FALSE
    /\ requests' = [requests EXCEPT ![i].pc = "caught"]
    /\ rendered' = profileView(profile, FALSE)
    /\ UNCHANGED <<organizations, financials, route, stats, orgs, home, profile>>

NextProfile ==
    \/ \E slug \in Slugs : navigate(slug)
    \/ \E i \in 1..(MaxNavigations + 1) : orgDataArrives(i)
    \/ \E i \in 1..(MaxNavigations + 1) : finDataArrives(i)
    \/ \E i \in 1..(MaxNavigations + 1) : mediaDataArrives(i)
    \/ \E i \in 1..(MaxNavigations + 1) : fetchRejects(i)

SpecProfile == InitProfile /\ [][NextProfile]_vars

\* C27: when the organization query of a call returns no rows, the step that
\* handles the response sets org to null and loading to false and leaves the
\* view at 'Organization not found', and the call never awaits the
\* financials or the media mentions.
C27_NoRowsNotFound ==
    /\ [][\A i \in 1..Len(requests) :
            (/\ requests[i].pc = "org"
             /\ orgQuery(requests[i].slug) = <<>>
             /\ requests'[i].pc \notin {"org", "caught"})
            => /\ profile'.org = Null
               /\ loading' = FALSE
               /\ rendered'.view = "not found"
               /\ requests'[i].pc = "returned"]_vars
    /\ [](\A i \in 1..Len(requests) :
            orgQuery(requests[i].slug) = <<>>
            => requests[i].pc \notin {"financials", "media"})
C27_Witness ==
    \E i \in 1..Len(requests) :
        /\ requests[i].slug = "none"
        /\ requests[i].pc = "returned"
        /\ \A j \in 1..Len(requests) : j # i => requests[j].pc = "returned"
        /\ Len(requests) > 1
        /\ rendered.view = "not found"

\* C24: once every call of fetchOrgData has returned, the org, the financials
\* and the media mentions held are those of the latest slug, and loading is
\* not false while the newest call is still pending.
C24_LatestSlugWins ==
    LET newest == requests[Len(requests)]
    IN  /\ (/\ \A i \in 1..Len(requests) : requests[i].pc = "returned"
            /\ orgQuery(profile.slug) # <<>>)
           => /\ profile.org = <<orgQuery(profile.slug)[1]>>
              /\ profile.financials = finQuery(orgQuery(profile.slug)[1].id)
              /\ profile.mediaMentions = mediaQuery(orgQuery(profile.slug)[1].id)
        /\ newest.pc \in {"org", "financials", "media"} => loading

\* C25: whenever the profile is rendered (loading false, org non-null) every
\* record of financials and of mediaMentions belongs to the organization
\* held in org.
C25_RecordsBelongToOrg ==
    (~loading /\ profile.org # Null)
    => /\ \A k \in 1..Len(profile.financials) :
            profile.financials[k].organization_id = profile.org[1].id
       /\ \A k \in 1..Len(profile.mediaMentions) :
            profile.mediaMentions[k].organization_id = profile.org[1].id

\* ------------------------------------------------------------------------
\* OrgProfile: the media section of a loaded profile
\* ------------------------------------------------------------------------

\* The profile of organization 1 has been fetched and holds one mention;
\* the page still shows 'Loading...'.
InitOutlet ==
    /\ organizations = OrganizationsProfile
    /\ financials \in TablesProfile
    /\ route = "profile"
    /\ loading = FALSE
    /\ stats = <<>>
    /\ orgs = <<>>
    /\ home = <<>>
    /\ \E outlet \in OutletInputs, url \in UrlInputs :
          profile = [slug |-> "a", org |-> <<OrganizationsProfile[1]>>,
                     financials |-> finQuery(1),
                     mediaMentions |-> <<[id |-> 1, organization_id |-> 1,
                                          published_date |-> Null,
                                          outlets |-> outlet, article_url |-> url]>>]
    /\ requests = <<[slug |-> "a", pc |-> "returned", id |-> 1]>>
    /\ rendered = profileView([org |-> Null, mediaMentions |-> <<>>], TRUE)

\* React renders the component with the state set by the finished call.
renderProfile ==
    /\ route = "profile"
    /\ rendered # profileView(profile, loading)
    /\ rendered' = profileView(profile, loading)
    /\ UNCHANGED <<organizations, financials, route, loading, stats, orgs, home,
                   profile, requests>>

NextOutlet == renderProfile

SpecOutlet == InitOutlet /\ [][NextOutlet]_vars

\* The hostname without a leading 'www.'.
WithoutLeadingWww(hostname) ==
    IF Len(hostname) >= 4 /\ SubSeq(hostname, 1, 4) = <<"w", "w", "w", ".">>
    THEN SubSeq(hostname, 5, Len(hostname))
    ELSE hostname

\* C22: the name shown for a mention is the joined outlet's name when the
\* mention has an outlet; otherwise 'News Source' when the URL is missing
\* or unparsable, the domain-map entry of the hostname without its leading
\* 'www.' when there is one, and else the capitalised first label of that
\* hostname.
C22_OutletName ==
    rendered.view = "profile"
    => \A k \in 1..Len(profile.mediaMentions) :
          LET mention == profile.mediaMentions[k]
              url     == mention.article_url
          IN  rendered.outlets[k] =
                IF mention.outlets # Null THEN mention.outlets[1].name
                ELSE IF url = Null \/ URLhostname(url) = <<>> THEN NewsSource
                ELSE LET hostname == WithoutLeadingWww(URLhostname(url)[1])
                     IN  IF domainMapAt(hostname) # <<>>
                         THEN domainMapAt(hostname)[1]
                         ELSE capitalise(firstLabel(hostname))

====
